---- MODULE Spec2Model ----
(***************************************************************************)
(* Model of the clan manager microservice (service/main.py).               *)
(*                                                                         *)
(* The service exposes two handlers, add_clan (PUT /clans/{tag}) and       *)
(* remove_clan (DELETE /clans/{tag}).  Each handler talks to the clan      *)
(* store and the API service over blocking HTTP calls (requests) and       *)
(* publishes an event on NATS.  An invocation is one request; its steps    *)
(* are the dependency calls of the handler, one action per call.  The      *)
(* handlers are coroutines whose HTTP calls are blocking: between two      *)
(* awaits an invocation keeps the event loop of its worker process.        *)
(***************************************************************************)
EXTENDS Integers, Sequences, FiniteSets, TLC

\* ---------------------------------------------------------------- bounds
NumInv == 2
NumWorkers == 2

Inv == 1..NumInv
Workers == 1..NumWorkers

\* The clans of the authoritative data source the model ranges over.
Universe == { [clan_id |-> 1, clan_tag |-> "TEST"], [clan_id |-> 10, clan_tag |-> "ABC"] }
Tags == {"TEST", "ABC"}

None == [clan_id |-> -1, clan_tag |-> "<none>"]

VARIABLES
    store,      \* records held by the clan store service
    source,     \* records known to the API service
    messages,   \* events published on the bus, in order: <<subject, payload>>
    running,    \* per worker: the invocation that holds the event loop, 0 if none
    inv         \* per invocation: the handler's frame

vars == <<store, source, messages, running, inv>>

\* ------------------------------------------------------------ conversions
\* str(clan_id): decimal rendering, most significant digit first.
\* Negative numbers carry a leading minus sign.
DigitChar(d) ==
    CASE d = 0 -> "0" [] d = 1 -> "1" [] d = 2 -> "2" [] d = 3 -> "3" [] d = 4 -> "4"
      [] d = 5 -> "5" [] d = 6 -> "6" [] d = 7 -> "7" [] d = 8 -> "8" [] d = 9 -> "9"

\* Variant of Str: least significant digit first.
RECURSIVE Str_Reversed(_)
Str_Reversed(n) ==
    IF n < 0 THEN <<"-">> \o Str_Reversed(-n)
    ELSE IF n < 10 THEN <<DigitChar(n)>>
    ELSE <<DigitChar(n % 10)>> \o Str_Reversed(n \div 10)

RECURSIVE Str(_)
Str(n) ==
    IF n < 0 THEN <<"-">> \o Str(-n)
    ELSE IF n < 10 THEN <<DigitChar(n)>>
    ELSE Str(n \div 10) \o <<DigitChar(n % 10)>>

\* .encode("utf-8") of a string of ASCII digits: one byte per character.
CharByte(c) ==
    CASE c = "0" -> 48 [] c = "1" -> 49 [] c = "2" -> 50 [] c = "3" -> 51 [] c = "4" -> 52
      [] c = "5" -> 53 [] c = "6" -> 54 [] c = "7" -> 55 [] c = "8" -> 56 [] c = "9" -> 57
      [] c = "-" -> 45

EncodeUtf8(s) == [i \in 1..Len(s) |-> CharByte(s[i])]

Payload(clan) == EncodeUtf8(Str(clan.clan_id))

\* ------------------------------------------------- the two backing services
\* GET /clans/{tag} on the store: the record under the tag, or 404.
StoreLookup(st, tag) ==
    IF \E r \in st : r.clan_tag = tag
    THEN CHOOSE r \in st : r.clan_tag = tag
    ELSE None

\* GET /clans/tag/{tag} on the API service.
SourceLookup(src, tag) ==
    IF \E r \in src : r.clan_tag = tag
    THEN CHOOSE r \in src : r.clan_tag = tag
    ELSE None

\* PUT /clans on the store: 201 for a new identifier, 200 for a known one.
StoreHas(st, clan) == \E r \in st : r.clan_id = clan.clan_id
StoreCreateStatus(st, clan) == IF StoreHas(st, clan) THEN 200 ELSE 201
StoreCreate(st, clan) == IF StoreHas(st, clan) THEN st ELSE st \cup {clan}

\* DELETE /clans on the store: a missing record is tolerated.
StoreDelete(st, clan) == { r \in st : r.clan_id # clan.clan_id }

\* ------------------------------------------------------------------ frames
IdleFrame ==
    [ pc        |-> "idle",     \* position of the invocation
      op        |-> "none",     \* "add" or "remove"
      clan_tag  |-> "none",     \* path parameter
      worker    |-> 0,          \* the process whose event loop runs it
      con       |-> "none",     \* NATS connection: none, open, closed
      existing  |-> None,       \* what get_stored_clan_data returned
      clan_data |-> None,       \* api_clan_data (add) / clan_data (remove)
      created   |-> FALSE,      \* result of save_clan
      result    |-> "none",     \* outcome reported to the caller
      failed    |-> "none",     \* the dependency call that raised
      calls     |-> <<>>,       \* dependency calls issued, in order
      published |-> <<>>,       \* events this invocation published
      changed   |-> FALSE,      \* its mutation changed the store's records
      held      |-> FALSE,      \* the store held the tag when the request arrived
      prior     |-> {} ]        \* the invocations that had ended when it arrived

Init ==
    /\ source \in SUBSET Universe
    /\ store \in SUBSET source
    /\ messages = <<>>
    /\ running = [w \in Workers |-> 0]
    /\ inv = [p \in Inv |-> IdleFrame]

\* An invocation may run synchronous code when its worker's loop is free or
\* already its own.
CanRun(p) == running[inv[p].worker] \in {0, p}
Hold(p) == [running EXCEPT ![inv[p].worker] = p]
Release(p) == [running EXCEPT ![inv[p].worker] = 0]

\* Idle workers are interchangeable: a request goes to a worker that runs an
\* invocation, or to the first worker that runs none.
Busy(w) == \E q \in Inv : inv[q].worker = w
Eligible(w) == Busy(w) \/ \A v \in Workers : v < w => Busy(v)

\* Variant of Finish: no try/finally around the yield, so an exception from
\* the handler leaves the connection open.
Finish_NoFinally(p, f, outcome) ==
    /\ inv' = [inv EXCEPT ![p] =
                 IF outcome \in {"NotFound", "DependencyFailure"}
                 THEN [f EXCEPT !.result = outcome, !.pc = "done", !.worker = 0]
                 ELSE [f EXCEPT !.result = outcome, !.pc = "done", !.worker = 0,
                                !.con = "closed", !.calls = Append(@, "close")]]
    /\ running' = Release(p)

\* The handler returned or raised: the outcome is fixed, the loop is free, and
\* get_nats_session resumes in its finally clause (lines 39-40) and closes the
\* connection.
Finish(p, f, outcome) ==
    /\ inv' = [inv EXCEPT ![p] = [f EXCEPT !.result = outcome, !.pc = "done", !.worker = 0,
                                            !.con = "closed", !.calls = Append(@, "close")]]
    /\ running' = Release(p)

\* ---------------------------------------------------------------- actions
\* A request is taken up by the event loop of a worker, is routed to add_clan
\* or remove_clan, and get_nats_session (lines 36-38) connects and yields the
\* connection.  A loop that is held by a blocking call takes up nothing.
Request(p) ==
    /\ inv[p].pc = "idle"
    /\ \A q \in Inv : q < p => inv[q].pc # "idle"
    /\ \E o \in {"add", "remove"}, t \in Tags, w \in Workers :
         /\ Eligible(w)
         /\ running[w] = 0
         /\ inv' = [inv EXCEPT ![p] = [@ EXCEPT !.pc = "lookup", !.op = o, !.clan_tag = t,
                                                 !.worker = w, !.con = "open",
                                                 !.held = (StoreLookup(store, t) # None),
                                                 !.prior = {q \in Inv : inv[q].result # "none"}]]
    /\ UNCHANGED <<store, source, messages, running>>

\* A request is taken up and nats.connect raises (line 36): the handler body
\* never runs.
RequestConnectFail(p) ==
    /\ inv[p].pc = "idle"
    /\ \A q \in Inv : q < p => inv[q].pc # "idle"
    /\ \E w \in Workers : running[w] = 0
    /\ \E o \in {"add", "remove"}, t \in Tags :
         inv' = [inv EXCEPT ![p] = [@ EXCEPT !.pc = "done", !.op = o, !.clan_tag = t,
                                              !.result = "DependencyFailure",
                                              !.failed = "connect",
                                              !.held = (StoreLookup(store, t) # None),
                                              !.prior = {q \in Inv : inv[q].result # "none"}]]
    /\ UNCHANGED <<store, source, messages, running>>

\* Variant of AddStoreLookup: the early return taken on a miss instead of a hit.
AddStoreLookup_Inverted(p) ==
    /\ inv[p].pc = "lookup" /\ inv[p].op = "add"
    /\ CanRun(p)
    /\ LET existing_clan_data == StoreLookup(store, inv[p].clan_tag)
           f == [inv[p] EXCEPT !.calls = Append(@, "store_lookup"), !.existing = existing_clan_data]
       IN IF existing_clan_data = None
          THEN Finish(p, f, "AlreadyPresent")
          ELSE /\ inv' = [inv EXCEPT ![p] = [f EXCEPT !.pc = "source"]]
               /\ running' = Hold(p)
    /\ UNCHANGED <<store, source, messages>>

\* add_clan, line 116-118: store lookup, early return when found.
AddStoreLookup(p) ==
    /\ inv[p].pc = "lookup" /\ inv[p].op = "add"
    /\ CanRun(p)
    /\ LET existing_clan_data == StoreLookup(store, inv[p].clan_tag)
           f == [inv[p] EXCEPT !.calls = Append(@, "store_lookup"), !.existing = existing_clan_data]
       IN IF existing_clan_data # None
          THEN Finish(p, f, "AlreadyPresent")
          ELSE /\ inv' = [inv EXCEPT ![p] = [f EXCEPT !.pc = "source"]]
               /\ running' = Hold(p)
    /\ UNCHANGED <<store, source, messages>>

\* A blocking HTTP call of the handler raises (timeout, connection error,
\* raise_for_status, malformed body): the exception leaves the handler.
Raise(p, call) ==
    Finish(p, [inv[p] EXCEPT !.calls = Append(@, call), !.failed = call], "DependencyFailure")

\* Variant of StoreLookupFail: the failure is swallowed and taken for a miss.
StoreLookupFail_AsMiss(p) ==
    /\ inv[p].pc = "lookup"
    /\ CanRun(p)
    /\ inv' = [inv EXCEPT ![p] = [@ EXCEPT !.calls = Append(@, "store_lookup"),
                                             !.failed = "store_lookup", !.pc = "source"]]
    /\ running' = Hold(p)
    /\ UNCHANGED <<store, source, messages>>

\* Variant of StoreLookupFail: the lookup is tried again after a failure.
StoreLookupFail_Retry(p) ==
    /\ inv[p].pc = "lookup"
    /\ CanRun(p)
    /\ inv' = [inv EXCEPT ![p] = [@ EXCEPT !.calls = Append(@, "store_lookup"),
                                             !.failed = "store_lookup"]]
    /\ running' = Hold(p)
    /\ UNCHANGED <<store, source, messages>>

\* get_stored_clan_data raises (lines 49, 52-54), in either handler.
StoreLookupFail(p) ==
    /\ inv[p].pc = "lookup"
    /\ CanRun(p)
    /\ Raise(p, "store_lookup")
    /\ UNCHANGED <<store, source, messages>>

\* Variant of AddSourceLookup: the check for a missing clan left out.
AddSourceLookup_NoCheck(p) ==
    /\ inv[p].pc = "source" /\ inv[p].op = "add"
    /\ CanRun(p)
    /\ LET api_clan_data == SourceLookup(source, inv[p].clan_tag)
       IN inv' = [inv EXCEPT ![p] = [@ EXCEPT !.calls = Append(@, "source_lookup"),
                                                !.clan_data = api_clan_data, !.pc = "save"]]
    /\ running' = Hold(p)
    /\ UNCHANGED <<store, source, messages>>

\* add_clan, lines 120-125: source lookup, 404 when the API has no such clan.
AddSourceLookup(p) ==
    /\ inv[p].pc = "source" /\ inv[p].op = "add"
    /\ CanRun(p)
    /\ LET api_clan_data == SourceLookup(source, inv[p].clan_tag)
           f == [inv[p] EXCEPT !.calls = Append(@, "source_lookup"), !.clan_data = api_clan_data]
       IN IF api_clan_data = None
          THEN Finish(p, f, "NotFound")
          ELSE /\ inv' = [inv EXCEPT ![p] = [f EXCEPT !.pc = "save"]]
               /\ running' = Hold(p)
    /\ UNCHANGED <<store, source, messages>>

\* Variant of SourceLookupFail: the failure is reported as a missing clan.
SourceLookupFail_AsNotFound(p) ==
    /\ inv[p].pc = "source"
    /\ CanRun(p)
    /\ Finish(p, [inv[p] EXCEPT !.calls = Append(@, "source_lookup"), !.failed = "source_lookup"],
              "NotFound")
    /\ UNCHANGED <<store, source, messages>>

\* get_api_clan_data raises (lines 63, 66-68), in either handler.
SourceLookupFail(p) ==
    /\ inv[p].pc = "source"
    /\ CanRun(p)
    /\ Raise(p, "source_lookup")
    /\ UNCHANGED <<store, source, messages>>

\* Variant of SaveClan: True for every success status.
SaveClan_AnySuccess(st, clan) == StoreCreateStatus(st, clan) \in {200, 201}

\* save_clan, line 83: True exactly for a CREATED status.
SaveClan(st, clan) == StoreCreateStatus(st, clan) = 201

\* Variant of AddSave: the event is published whether or not the store
\* created the record.
AddSave_PublishAlways(p) ==
    /\ inv[p].pc = "save" /\ inv[p].op = "add"
    /\ CanRun(p)
    /\ LET api_clan_data == inv[p].clan_data
           created == SaveClan(store, api_clan_data)
           st == StoreCreate(store, api_clan_data)
       IN /\ store' = st
          /\ inv' = [inv EXCEPT ![p] = [@ EXCEPT !.calls = Append(@, "create"), !.created = created,
                                                   !.changed = (st # store), !.pc = "publish"]]
          /\ running' = Hold(p)
    /\ UNCHANGED <<source, messages>>

\* Variant of AddSave: an already existing record is reported as an error.
AddSave_NotCreatedIsError(p) ==
    /\ inv[p].pc = "save" /\ inv[p].op = "add"
    /\ CanRun(p)
    /\ LET api_clan_data == inv[p].clan_data
           created == SaveClan(store, api_clan_data)
           st == StoreCreate(store, api_clan_data)
           f == [inv[p] EXCEPT !.calls = Append(@, "create"), !.created = created,
                               !.changed = (st # store)]
       IN /\ store' = st
          /\ IF ~created
             THEN Finish(p, f, "DependencyFailure")
             ELSE /\ inv' = [inv EXCEPT ![p] = [f EXCEPT !.pc = "publish"]]
                  /\ running' = Hold(p)
    /\ UNCHANGED <<source, messages>>

\* add_clan, lines 127-129: create in the store, return 200 when not created.
AddSave(p) ==
    /\ inv[p].pc = "save" /\ inv[p].op = "add"
    /\ CanRun(p)
    /\ LET api_clan_data == inv[p].clan_data
           created == SaveClan(store, api_clan_data)
           st == StoreCreate(store, api_clan_data)
           f == [inv[p] EXCEPT !.calls = Append(@, "create"), !.created = created,
                               !.changed = (st # store)]
       IN /\ store' = st
          /\ IF ~created
             THEN Finish(p, f, "AlreadyPresent")
             ELSE /\ inv' = [inv EXCEPT ![p] = [f EXCEPT !.pc = "publish"]]
                  /\ running' = Hold(p)
       /\ UNCHANGED <<source, messages>>

\* save_clan raises (lines 77-82); the store may or may not have served the
\* request before the failure was seen.
SaveFail(p) ==
    /\ inv[p].pc = "save"
    /\ CanRun(p)
    /\ \E st \in {store, StoreCreate(store, inv[p].clan_data)} :
         /\ store' = st
         /\ Finish(p, [inv[p] EXCEPT !.calls = Append(@, "create"), !.failed = "create",
                                     !.changed = (st # store)],
                   "DependencyFailure")
    /\ UNCHANGED <<source, messages>>

\* add_clan, line 130: publish the identifier on clans.add.
AddPublish(p) ==
    /\ inv[p].pc = "publish" /\ inv[p].op = "add"
    /\ CanRun(p)
    /\ LET m == <<"clans.add", Payload(inv[p].clan_data)>>
       IN /\ messages' = Append(messages, m)
          /\ inv' = [inv EXCEPT ![p] = [@ EXCEPT !.calls = Append(@, "publish"),
                                                   !.published = Append(@, m), !.pc = "return"]]
    /\ running' = Release(p)
    /\ UNCHANGED <<store, source>>

\* Variant of PublishFail: the store mutation is undone when the publish fails.
PublishFail_Rollback(p) ==
    /\ inv[p].pc = "publish"
    /\ CanRun(p)
    /\ Raise(p, "publish")
    /\ store' = IF inv[p].op = "add" THEN StoreDelete(store, inv[p].clan_data)
                ELSE IF inv[p].changed THEN StoreCreate(store, inv[p].clan_data)
                ELSE store
    /\ UNCHANGED <<source, messages>>

\* nats_con.publish raises (line 130 or 159): nothing reaches the bus.
PublishFail(p) ==
    /\ inv[p].pc = "publish"
    /\ CanRun(p)
    /\ Raise(p, "publish")
    /\ UNCHANGED <<store, source, messages>>

\* Variant of AddReturn: 200 reported after the publish.
AddReturn_Ok(p) ==
    /\ inv[p].pc = "return" /\ inv[p].op = "add"
    /\ CanRun(p)
    /\ Finish(p, inv[p], "AlreadyPresent")
    /\ UNCHANGED <<store, source, messages>>

\* add_clan, line 131: the publish has returned, report 201.
AddReturn(p) ==
    /\ inv[p].pc = "return" /\ inv[p].op = "add"
    /\ CanRun(p)
    /\ Finish(p, inv[p], "Created")
    /\ UNCHANGED <<store, source, messages>>

\* Variant of RemoveStoreLookup: the API is asked even after a hit.
RemoveStoreLookup_AlwaysSource(p) ==
    /\ inv[p].pc = "lookup" /\ inv[p].op = "remove"
    /\ CanRun(p)
    /\ LET clan_data == StoreLookup(store, inv[p].clan_tag)
       IN inv' = [inv EXCEPT ![p] = [@ EXCEPT !.calls = Append(@, "store_lookup"),
                                                !.existing = clan_data, !.clan_data = clan_data,
                                                !.pc = "source"]]
    /\ running' = Hold(p)
    /\ UNCHANGED <<store, source, messages>>

\* remove_clan, lines 149-150: store lookup; a hit is the deletion target.
RemoveStoreLookup(p) ==
    /\ inv[p].pc = "lookup" /\ inv[p].op = "remove"
    /\ CanRun(p)
    /\ LET clan_data == StoreLookup(store, inv[p].clan_tag)
       IN inv' = [inv EXCEPT ![p] = [@ EXCEPT !.calls = Append(@, "store_lookup"),
                                                !.existing = clan_data, !.clan_data = clan_data,
                                                !.pc = IF clan_data = None THEN "source" ELSE "delete"]]
    /\ running' = Hold(p)
    /\ UNCHANGED <<store, source, messages>>

\* Variant of RemoveSourceLookup: a clan the store lacks is reported as not
\* found even when the API knows it.
RemoveSourceLookup_MissIsNotFound(p) ==
    /\ inv[p].pc = "source" /\ inv[p].op = "remove"
    /\ CanRun(p)
    /\ LET clan_data == SourceLookup(source, inv[p].clan_tag)
           f == [inv[p] EXCEPT !.calls = Append(@, "source_lookup"), !.clan_data = clan_data]
       IN Finish(p, f, "NotFound")
    /\ UNCHANGED <<store, source, messages>>

\* Variant of RemoveSourceLookup: the check for a missing clan left out.
RemoveSourceLookup_NoCheck(p) ==
    /\ inv[p].pc = "source" /\ inv[p].op = "remove"
    /\ CanRun(p)
    /\ LET clan_data == SourceLookup(source, inv[p].clan_tag)
       IN inv' = [inv EXCEPT ![p] = [@ EXCEPT !.calls = Append(@, "source_lookup"),
                                                !.clan_data = clan_data, !.pc = "delete"]]
    /\ running' = Hold(p)
    /\ UNCHANGED <<store, source, messages>>

\* remove_clan, lines 151-157: fall back to the API, 404 when it misses too.
RemoveSourceLookup(p) ==
    /\ inv[p].pc = "source" /\ inv[p].op = "remove"
    /\ CanRun(p)
    /\ LET clan_data == SourceLookup(source, inv[p].clan_tag)
           f == [inv[p] EXCEPT !.calls = Append(@, "source_lookup"), !.clan_data = clan_data]
       IN IF clan_data = None
          THEN Finish(p, f, "NotFound")
          ELSE /\ inv' = [inv EXCEPT ![p] = [f EXCEPT !.pc = "delete"]]
               /\ running' = Hold(p)
    /\ UNCHANGED <<store, source, messages>>

\* Variant of RemoveDelete: save_clan called where delete_clan belongs.
RemoveDelete_Saves(p) ==
    /\ inv[p].pc = "delete" /\ inv[p].op = "remove"
    /\ CanRun(p)
    /\ LET st == StoreCreate(store, inv[p].clan_data)
       IN /\ store' = st
          /\ inv' = [inv EXCEPT ![p] = [@ EXCEPT !.calls = Append(@, "create"),
                                                   !.changed = (st # store), !.pc = "publish"]]
    /\ running' = Hold(p)
    /\ UNCHANGED <<source, messages>>

\* remove_clan, line 158: delete the target from the store.
RemoveDelete(p) ==
    /\ inv[p].pc = "delete" /\ inv[p].op = "remove"
    /\ CanRun(p)
    /\ LET st == StoreDelete(store, inv[p].clan_data)
       IN /\ store' = st
          /\ inv' = [inv EXCEPT ![p] = [@ EXCEPT !.calls = Append(@, "delete"),
                                                   !.changed = (st # store), !.pc = "publish"]]
    /\ running' = Hold(p)
    /\ UNCHANGED <<source, messages>>

\* delete_clan raises (lines 92-97); the store may or may not have served
\* the request before the failure was seen.
DeleteFail(p) ==
    /\ inv[p].pc = "delete"
    /\ CanRun(p)
    /\ \E st \in {store, StoreDelete(store, inv[p].clan_data)} :
         /\ store' = st
         /\ Finish(p, [inv[p] EXCEPT !.calls = Append(@, "delete"), !.failed = "delete",
                                     !.changed = (st # store)],
                   "DependencyFailure")
    /\ UNCHANGED <<source, messages>>

\* Variant of RemovePublish: the topic of add_clan used in remove_clan.
RemovePublish_AddTopic(p) ==
    /\ inv[p].pc = "publish" /\ inv[p].op = "remove"
    /\ CanRun(p)
    /\ LET m == <<"clans.add", Payload(inv[p].clan_data)>>
       IN /\ messages' = Append(messages, m)
          /\ inv' = [inv EXCEPT ![p] = [@ EXCEPT !.calls = Append(@, "publish"),
                                                   !.published = Append(@, m), !.pc = "return"]]
    /\ running' = Release(p)
    /\ UNCHANGED <<store, source>>

\* remove_clan, line 159: publish the identifier on clans.delete.
RemovePublish(p) ==
    /\ inv[p].pc = "publish" /\ inv[p].op = "remove"
    /\ CanRun(p)
    /\ LET m == <<"clans.delete", Payload(inv[p].clan_data)>>
       IN /\ messages' = Append(messages, m)
          /\ inv' = [inv EXCEPT ![p] = [@ EXCEPT !.calls = Append(@, "publish"),
                                                   !.published = Append(@, m), !.pc = "return"]]
    /\ running' = Release(p)
    /\ UNCHANGED <<store, source>>

\* remove_clan, line 160: the publish has returned, report 200.
RemoveReturn(p) ==
    /\ inv[p].pc = "return" /\ inv[p].op = "remove"
    /\ CanRun(p)
    /\ Finish(p, inv[p], "Removed")
    /\ UNCHANGED <<store, source, messages>>

Next ==
    \E p \in Inv :
        \/ Request(p)
        \/ RequestConnectFail(p)
        \/ AddStoreLookup(p)
        \/ StoreLookupFail(p)
        \/ AddSourceLookup(p)
        \/ SourceLookupFail(p)
        \/ AddSave(p)
        \/ SaveFail(p)
        \/ AddPublish(p)
        \/ PublishFail(p)
        \/ AddReturn(p)
        \/ RemoveStoreLookup(p)
        \/ RemoveSourceLookup(p)
        \/ RemoveDelete(p)
        \/ DeleteFail(p)
        \/ RemovePublish(p)
        \/ RemoveReturn(p)

Spec == Init /\ [][Next]_vars

TypeOK ==
    /\ store \subseteq Universe
    /\ source \subseteq Universe
    /\ \A w \in Workers : running[w] \in Inv \cup {0}
    /\ \A p \in Inv : inv[p].result \in {"none", "AlreadyPresent", "Created", "Removed",
                                         "NotFound", "DependencyFailure"}

\* ------------------------------------------------------- reading a frame
IsAdd(p) == inv[p].op = "add"
IsRemove(p) == inv[p].op = "remove"
Ended(p) == inv[p].result # "none"
NoFailure(p) == inv[p].failed = "none"
Called(p, c) == \E i \in DOMAIN inv[p].calls : inv[p].calls[i] = c
InSource(t) == \E r \in source : r.clan_tag = t

\* The identifiers of the two clans as the bytes of their decimal strings:
\* b"1" for TEST (id 1), b"10" for ABC (id 10).
ExpectedBytes(t) == IF t = "TEST" THEN <<49>> ELSE <<49, 48>>
AddEvent(t) == <<"clans.add", ExpectedBytes(t)>>
DeleteEvent(t) == <<"clans.delete", ExpectedBytes(t)>>

\* q arrived after p had ended, and every other invocation ended before p
\* arrived or arrived after q ended.
Sequential(p, q) ==
    /\ p < q
    /\ p \in inv[q].prior
    /\ \A r \in Inv \ {p, q} :
         inv[r].pc = "idle" \/ r \in inv[p].prior \/ q \in inv[r].prior

\* q arrived while p had not ended.
Concurrent(p, q) ==
    /\ p < q
    /\ inv[q].pc # "idle"
    /\ p \notin inv[q].prior

\* ------------------------------------------------------------------ claims

\* C1 (as stated): every Add or Remove that ends without a dependency failure
\* has published an event if and only if its store mutation changed the
\* store's set of records; a Remove whose target was not in the store
\* publishes nothing.
C1_PublishIffStoreChanged ==
    \A p \in Inv :
        Ended(p) /\ NoFailure(p) => ((inv[p].published # <<>>) <=> inv[p].changed)

\* C1 (amended): an Add publishes only if its create changed the store's
\* records, and when none of its dependency calls fails it publishes exactly
\* then; a Remove publishes only after it issued the delete, and when none of
\* its dependency calls fails it publishes exactly when it issued the delete,
\* whether or not the delete changed the store's records.
C1_PublishContract ==
    \A p \in Inv :
        /\ IsAdd(p) =>
             /\ inv[p].published # <<>> => inv[p].changed
             /\ Ended(p) /\ NoFailure(p) => (inv[p].changed => inv[p].published # <<>>)
        /\ IsRemove(p) =>
             /\ inv[p].published # <<>> => Called(p, "delete")
             /\ Ended(p) /\ NoFailure(p) => (Called(p, "delete") => inv[p].published # <<>>)

\* C1 witness: a Remove that found nothing in the store, deleted the record
\* the API supplied, left the store as it was and published clans.delete.
C1_Witness ==
    \E p \in Inv :
        /\ IsRemove(p) /\ inv[p].result = "Removed"
        /\ inv[p].existing = None /\ ~inv[p].changed
        /\ inv[p].published = <<DeleteEvent(inv[p].clan_tag)>>

\* C2: for a tag in the source and not in the store, two Adds run one after
\* the other without failures and with no request in between end in Created
\* and AlreadyPresent, and publish one clans.add event between them.
C2_IdempotentAdd ==
    \A p, q \in Inv :
        ( /\ Sequential(p, q)
          /\ IsAdd(p) /\ IsAdd(q) /\ inv[p].clan_tag = inv[q].clan_tag
          /\ InSource(inv[p].clan_tag) /\ ~inv[p].held
          /\ Ended(q) /\ NoFailure(p) /\ NoFailure(q) )
        => /\ inv[p].result = "Created"
           /\ inv[q].result = "AlreadyPresent"
           /\ inv[p].published \o inv[q].published = <<AddEvent(inv[p].clan_tag)>>

\* C2 witness: two sequential Adds of an absent tag that have both ended.
C2_Witness ==
    \E p, q \in Inv :
        /\ Sequential(p, q)
        /\ IsAdd(p) /\ IsAdd(q) /\ inv[p].clan_tag = inv[q].clan_tag
        /\ ~inv[p].held
        /\ inv[p].result = "Created" /\ inv[q].result = "AlreadyPresent"
        /\ Len(messages) = 1

\* C3: for a tag in the source and not in the store, two overlapping Adds
\* whose dependency calls do not fail both end in success: one reports
\* Created and has published one clans.add event, the other reports
\* AlreadyPresent and has published nothing.
C3_RaceTolerance ==
    \A p, q \in Inv :
        ( /\ Concurrent(p, q)
          /\ IsAdd(p) /\ IsAdd(q) /\ inv[p].clan_tag = inv[q].clan_tag
          /\ InSource(inv[p].clan_tag) /\ ~inv[p].held /\ ~inv[q].held
          /\ \A r \in Inv \ {p, q} :
               inv[r].pc = "idle" \/ r \in inv[p].prior \/ inv[r].clan_tag # inv[p].clan_tag
          /\ Ended(p) /\ Ended(q) /\ NoFailure(p) /\ NoFailure(q) )
        => \E w, l \in {p, q} :
             /\ w # l
             /\ inv[w].result = "Created"
             /\ inv[w].published = <<AddEvent(inv[w].clan_tag)>>
             /\ inv[l].result = "AlreadyPresent"
             /\ inv[l].published = <<>>

\* C3 witness: both Adds saw the store lookup miss, both issued the create,
\* one ended Created and the other AlreadyPresent.
C3_Witness ==
    \E p, q \in Inv :
        /\ Concurrent(p, q)
        /\ IsAdd(p) /\ IsAdd(q) /\ inv[p].clan_tag = inv[q].clan_tag
        /\ Called(p, "create") /\ Called(q, "create")
        /\ {inv[p].result, inv[q].result} = {"Created", "AlreadyPresent"}

\* C4: an Add for a tag the source does not have (and so the store neither)
\* issues no store create, leaves the store as it is, publishes nothing and,
\* unless a lookup fails, ends in NotFound.
C4_AddRequiresExistence ==
    \A p \in Inv :
        IsAdd(p) /\ ~InSource(inv[p].clan_tag)
        => /\ ~Called(p, "create")
           /\ ~inv[p].changed
           /\ inv[p].published = <<>>
           /\ inv[p].existing = None
           /\ Ended(p) /\ NoFailure(p) => inv[p].result = "NotFound"

\* C4 witness: an Add of an unknown tag that ended in NotFound.
C4_Witness ==
    \E p \in Inv :
        /\ IsAdd(p) /\ ~InSource(inv[p].clan_tag)
        /\ inv[p].result = "NotFound"
        /\ inv[p].calls = <<"store_lookup", "source_lookup", "close">>

\* C5: an Add whose store lookup found the tag has ended in AlreadyPresent
\* with the store lookup as its only dependency call: no source lookup, no
\* create, no event.
C5_AddFoundIsNoOp ==
    \A p \in Inv :
        IsAdd(p) /\ inv[p].existing # None
        => /\ inv[p].result = "AlreadyPresent"
           /\ inv[p].calls = <<"store_lookup", "close">>
           /\ inv[p].published = <<>>
           /\ ~inv[p].changed

\* C5 witness: an Add whose store lookup returned the record.
C5_Witness ==
    \E p \in Inv :
        /\ IsAdd(p) /\ inv[p].existing # None
        /\ inv[p].existing.clan_tag = inv[p].clan_tag
        /\ inv[p].result = "AlreadyPresent"

\* The first n dependency calls of an invocation.
FirstCalls(p, n) == SubSeq(inv[p].calls, 1, n)

\* C6: an Add whose store lookup missed, whose source lookup returned a
\* record and whose create reported "created" publishes one event on
\* clans.add carrying the decimal bytes of the source record's identifier;
\* the publish comes after the create and before Created is reported.
C6_AddCreatedPublishes ==
    \A p \in Inv :
        IsAdd(p) =>
          /\ inv[p].published # <<>> =>
               /\ inv[p].created
               /\ inv[p].existing = None
               /\ inv[p].clan_data = SourceLookup(source, inv[p].clan_tag)
               /\ FirstCalls(p, 4) = <<"store_lookup", "source_lookup", "create", "publish">>
               /\ inv[p].published = <<AddEvent(inv[p].clan_tag)>>
          /\ inv[p].result = "Created" => inv[p].published = <<AddEvent(inv[p].clan_tag)>>
          /\ inv[p].created /\ Ended(p) /\ NoFailure(p) => inv[p].result = "Created"

\* C6 witness: an Add of the clan with the two-digit identifier has reported
\* Created and its event is the only message on the bus.
C6_Witness ==
    \E p \in Inv :
        /\ IsAdd(p) /\ inv[p].clan_tag = "ABC" /\ inv[p].result = "Created"
        /\ inv[p].clan_data.clan_id = 10
        /\ messages = << <<"clans.add", <<49, 48>> >> >>

\* C7: an Add whose store lookup missed, whose source lookup returned a
\* record and whose create reported "already exists" ends in AlreadyPresent
\* and publishes nothing.
C7_AddNotCreatedIsPresent ==
    \A p \in Inv :
        IsAdd(p) /\ Called(p, "create") /\ ~inv[p].created /\ NoFailure(p)
        => /\ inv[p].result = "AlreadyPresent"
           /\ inv[p].published = <<>>
           /\ inv[p].calls = <<"store_lookup", "source_lookup", "create", "close">>

\* C7 witness: an Add that lost the race: its lookup missed, its create was
\* answered "already exists".
C7_Witness ==
    \E p \in Inv :
        /\ IsAdd(p) /\ Called(p, "create") /\ ~inv[p].created /\ NoFailure(p)
        /\ inv[p].existing = None /\ inv[p].clan_data # None
        /\ inv[p].result = "AlreadyPresent"

\* C8: a Remove whose store lookup found the tag never calls the source: its
\* target is the store's record, and unless the delete or the publish fails
\* it deletes, publishes one clans.delete event with that record's
\* identifier and reports Removed.
C8_RemovePrefersStore ==
    \A p \in Inv :
        IsRemove(p) /\ inv[p].existing # None
        => /\ ~Called(p, "source_lookup")
           /\ inv[p].clan_data = inv[p].existing
           /\ inv[p].existing.clan_tag = inv[p].clan_tag
           /\ inv[p].published # <<>> => inv[p].published = <<DeleteEvent(inv[p].clan_tag)>>
           /\ Ended(p) /\ NoFailure(p) =>
                /\ inv[p].result = "Removed"
                /\ inv[p].calls = <<"store_lookup", "delete", "publish", "close">>
                /\ inv[p].published = <<DeleteEvent(inv[p].clan_tag)>>

\* C8 witness: a Remove that found the record in the store, deleted it and
\* reported Removed.
C8_Witness ==
    \E p \in Inv :
        /\ IsRemove(p) /\ inv[p].existing # None
        /\ inv[p].changed /\ inv[p].result = "Removed"
        /\ inv[p].existing \notin store

\* C9: a Remove whose store lookup missed and whose source lookup found the
\* tag issues the delete with the source's record, publishes one
\* clans.delete event with the source's identifier and reports Removed.
C9_RemoveFallsBackToSource ==
    \A p \in Inv :
        IsRemove(p) /\ Called(p, "source_lookup") /\ InSource(inv[p].clan_tag) /\ NoFailure(p)
        => /\ inv[p].existing = None
           /\ inv[p].clan_data = SourceLookup(source, inv[p].clan_tag)
           /\ inv[p].published # <<>> => inv[p].published = <<DeleteEvent(inv[p].clan_tag)>>
           /\ Ended(p) =>
                /\ inv[p].result = "Removed"
                /\ inv[p].calls = <<"store_lookup", "source_lookup", "delete", "publish", "close">>
                /\ inv[p].published = <<DeleteEvent(inv[p].clan_tag)>>

\* C9 witness: the store held no record of the tag when the Remove arrived
\* nor when it deleted; it still reported Removed and published.
C9_Witness ==
    \E p \in Inv :
        /\ IsRemove(p) /\ ~inv[p].held /\ ~inv[p].changed
        /\ inv[p].calls = <<"store_lookup", "source_lookup", "delete", "publish", "close">>
        /\ inv[p].result = "Removed"
        /\ Len(inv[p].published) = 1

\* C10: a Remove for a tag the source does not have (and so the store
\* neither) issues no delete, publishes nothing and, unless a lookup fails,
\* ends in NotFound.
C10_RemoveRequiresExistence ==
    \A p \in Inv :
        IsRemove(p) /\ ~InSource(inv[p].clan_tag)
        => /\ ~Called(p, "delete")
           /\ ~inv[p].changed
           /\ inv[p].published = <<>>
           /\ Ended(p) /\ NoFailure(p) => inv[p].result = "NotFound"

\* C10 witness: a Remove of an unknown tag that ended in NotFound.
C10_Witness ==
    \E p \in Inv :
        /\ IsRemove(p) /\ ~InSource(inv[p].clan_tag)
        /\ inv[p].result = "NotFound"
        /\ inv[p].calls = <<"store_lookup", "source_lookup", "close">>

\* The dependency calls of an invocation without the closing of the
\* connection.
BodyCalls(p) == SelectSeq(inv[p].calls, LAMBDA c : c # "close")

\* C11: an Add whose store lookup, source lookup or create failed has ended
\* in DependencyFailure, the failed call is its last dependency call, and it
\* has published nothing.
C11_AddFailurePropagates ==
    \A p \in Inv :
        IsAdd(p) /\ inv[p].failed \in {"store_lookup", "source_lookup", "create"}
        => /\ inv[p].result = "DependencyFailure"
           /\ inv[p].pc = "done"
           /\ BodyCalls(p)[Len(BodyCalls(p))] = inv[p].failed
           /\ inv[p].published = <<>>
           /\ ~Called(p, "publish")

\* C11 witness: an Add whose create failed, after two lookups that did not.
C11_Witness ==
    \E p \in Inv :
        /\ IsAdd(p) /\ inv[p].failed = "create"
        /\ inv[p].result = "DependencyFailure"
        /\ inv[p].calls = <<"store_lookup", "source_lookup", "create", "close">>

\* C12: a Remove whose store lookup failed ends in DependencyFailure with
\* that lookup as its only dependency call; a Remove whose source lookup or
\* delete failed ends in DependencyFailure without an event; a Remove that
\* published did so after a delete call that did not fail.
C12_RemoveFailurePropagates ==
    \A p \in Inv :
        IsRemove(p) =>
          /\ inv[p].failed = "store_lookup" =>
               /\ inv[p].result = "DependencyFailure"
               /\ BodyCalls(p) = <<"store_lookup">>
               /\ inv[p].published = <<>>
          /\ inv[p].failed \in {"source_lookup", "delete"} =>
               /\ inv[p].result = "DependencyFailure"
               /\ BodyCalls(p)[Len(BodyCalls(p))] = inv[p].failed
               /\ inv[p].published = <<>>
          /\ inv[p].published # <<>> =>
               /\ inv[p].failed = "none"
               /\ \E i, j \in DOMAIN inv[p].calls :
                    i < j /\ inv[p].calls[i] = "delete" /\ inv[p].calls[j] = "publish"

\* C12 witness: a Remove whose store lookup failed while the API knew the
\* tag: the API was not asked.
C12_Witness ==
    \E p \in Inv :
        /\ IsRemove(p) /\ inv[p].failed = "store_lookup"
        /\ InSource(inv[p].clan_tag)
        /\ inv[p].result = "DependencyFailure"
        /\ inv[p].calls = <<"store_lookup", "close">>

\* The store holds a record under the tag.
InStore(t) == \E r \in store : r.clan_tag = t

\* Every invocation of the given kind for the tag, other than p, had ended
\* when p arrived: none of them ran during or after p.
OnlyBefore(p, kind) ==
    \A r \in Inv \ {p} :
        inv[r].op = kind /\ inv[r].clan_tag = inv[p].clan_tag => r \in inv[p].prior

\* C13 (as stated): after an Add whose publish failed the store holds the
\* record, no clans.add event of that Add is on the bus, and every later Add
\* for the tag whose own calls do not fail reports AlreadyPresent without
\* publishing.
C13_LostEventIsFinal ==
    \A p \in Inv :
        IsAdd(p) /\ inv[p].failed = "publish"
        => /\ inv[p].result = "DependencyFailure"
           /\ inv[p].published = <<>>
           /\ InStore(inv[p].clan_tag)
           /\ \A q \in Inv :
                ( /\ IsAdd(q) /\ inv[q].clan_tag = inv[p].clan_tag
                  /\ p \in inv[q].prior /\ Ended(q) /\ NoFailure(q) )
                => inv[q].result = "AlreadyPresent" /\ inv[q].published = <<>>

\* C13 (amended): an invocation whose publish failed ends in
\* DependencyFailure with no event of its own, after a create or delete call
\* that is not undone: unless a Remove for the tag ran during or after a
\* failed Add the store holds the record and every later Add for the tag
\* whose calls do not fail reports AlreadyPresent without publishing; unless
\* an Add for the tag ran during or after a failed Remove the store holds no
\* record of the tag.
C13_PublishFailureKeepsMutation ==
    \A p \in Inv :
        inv[p].failed = "publish"
        => /\ inv[p].result = "DependencyFailure"
           /\ inv[p].published = <<>>
           /\ BodyCalls(p)[Len(BodyCalls(p))] = "publish"
           /\ IsAdd(p) =>
                /\ inv[p].created /\ inv[p].changed
                /\ OnlyBefore(p, "remove") =>
                     /\ inv[p].clan_data \in store
                     /\ \A q \in Inv :
                          ( /\ IsAdd(q) /\ inv[q].clan_tag = inv[p].clan_tag
                            /\ p \in inv[q].prior /\ Ended(q) /\ NoFailure(q) )
                          => inv[q].result = "AlreadyPresent" /\ inv[q].published = <<>>
           /\ IsRemove(p) =>
                /\ Called(p, "delete")
                /\ OnlyBefore(p, "add") => ~InStore(inv[p].clan_tag)

\* C13 witness: an Add whose publish failed, the record in the store, no
\* event on the bus, and a later Add for the tag that reported AlreadyPresent.
C13_Witness ==
    \E p, q \in Inv :
        /\ IsAdd(p) /\ inv[p].failed = "publish" /\ inv[p].clan_data \in store
        /\ IsAdd(q) /\ inv[q].clan_tag = inv[p].clan_tag /\ p \in inv[q].prior
        /\ inv[q].result = "AlreadyPresent"
        /\ messages = <<>>

\* C14: the store's records are always records of the source.
C14_StoreSubsetOfSource == store \subseteq source

\* C14 witness: an Add has created a record in a store that lacked it, and
\* the source has a record the store does not.
C14_Witness ==
    \E p \in Inv :
        /\ IsAdd(p) /\ inv[p].changed /\ ~inv[p].held
        /\ inv[p].clan_data \in store
        /\ store # source

\* The place of a dependency call in the protocol.
CallRank(c) ==
    CASE c = "store_lookup" -> 1
      [] c = "source_lookup" -> 2
      [] c \in {"create", "delete"} -> 3
      [] c = "publish" -> 4
      [] c = "close" -> 5

\* C15: the dependency calls of an invocation come in protocol order (store
\* lookup, source lookup, store mutation, publish), each at most once, and a
\* call that failed is the last one of its invocation.
C15_EachCallAtMostOnce ==
    \A p \in Inv :
        /\ \A i, j \in DOMAIN inv[p].calls :
             i < j => CallRank(inv[p].calls[i]) < CallRank(inv[p].calls[j])
        /\ inv[p].failed \notin {"none", "connect"} =>
             /\ BodyCalls(p)[Len(BodyCalls(p))] = inv[p].failed
             /\ inv[p].pc = "done"

\* C15 witness: one invocation has issued all four calls, another has ended
\* on a failed store lookup with no call after it.
C15_Witness ==
    \E p, q \in Inv :
        /\ BodyCalls(p) = <<"store_lookup", "source_lookup", "delete", "publish">>
        /\ inv[q].failed = "store_lookup"
        /\ BodyCalls(q) = <<"store_lookup">>

\* A step of the handler of invocation q.
HandlerStep(q) ==
    \/ AddStoreLookup(q) \/ StoreLookupFail(q)
    \/ AddSourceLookup(q) \/ SourceLookupFail(q)
    \/ AddSave(q) \/ SaveFail(q)
    \/ AddPublish(q) \/ PublishFail(q) \/ AddReturn(q)
    \/ RemoveStoreLookup(q) \/ RemoveSourceLookup(q)
    \/ RemoveDelete(q) \/ DeleteFail(q)
    \/ RemovePublish(q) \/ RemoveReturn(q)

\* Invocation p is inside the blocking part of its handler: the store lookup
\* has been issued and a source lookup or a store mutation is next.
InBlockingCall(p) ==
    /\ inv[p].pc \in {"source", "save", "delete"}
    /\ running[inv[p].worker] = p

\* C16: while an invocation is inside a blocking dependency call, every other
\* invocation of the same process that has work to do can take a step.
C16_OnlyTheTaskIsSuspended ==
    \A p, q \in Inv :
        ( /\ p # q
          /\ InBlockingCall(p)
          /\ inv[q].worker = inv[p].worker
          /\ inv[q].pc \in {"lookup", "return"} )
        => ENABLED HandlerStep(q)

\* How often a call occurs among the calls of an invocation.
CallCount(p, c) == Cardinality({i \in DOMAIN inv[p].calls : inv[p].calls[i] = c})

\* C17: an invocation holds an open connection exactly while its handler is
\* under way; once the handler has ended, whatever the outcome, the
\* connection has been closed exactly once, as the last call, and so after
\* every publish; an invocation that got no connection closes none.
C17_ConnectionReleased ==
    \A p \in Inv :
        /\ inv[p].con = "open" <=> inv[p].pc \notin {"idle", "done"}
        /\ inv[p].con = "closed" <=> (Ended(p) /\ inv[p].failed # "connect")
        /\ CallCount(p, "close") = (IF inv[p].con = "closed" THEN 1 ELSE 0)
        /\ \A i \in DOMAIN inv[p].calls :
             inv[p].calls[i] = "close" => i = Len(inv[p].calls)
        /\ Ended(p) <=> inv[p].pc = "done"

\* C17 witness: the two exception paths: one invocation ended in NotFound,
\* another in DependencyFailure after its publish failed, both closed.
C17_Witness ==
    \E p, q \in Inv :
        /\ inv[p].result = "NotFound" /\ inv[p].con = "closed"
        /\ inv[q].failed = "publish" /\ inv[q].con = "closed"
        /\ inv[q].calls[Len(inv[q].calls)] = "close"

\* C18: no step changes the source; an Add issues no delete and its steps
\* only add records to the store; a Remove issues no create and its steps
\* only take records from the store.
C18_SourceReadOnlyAddGrowsRemoveShrinks ==
    /\ [](\A p \in Inv :
            /\ IsAdd(p) => ~Called(p, "delete")
            /\ IsRemove(p) => ~Called(p, "create"))
    /\ [][ /\ source' = source
           /\ \A p \in Inv :
                inv'[p] # inv[p] =>
                  /\ inv'[p].op = "add" => store \subseteq store'
                  /\ inv'[p].op = "remove" => store' \subseteq store ]_vars

\* C18 witness: an Add has added a record to the store and a Remove has
\* taken one from it, with the source as it was.
C18_Witness ==
    \E p, q \in Inv :
        /\ IsAdd(p) /\ inv[p].changed /\ Called(p, "create")
        /\ IsRemove(q) /\ inv[q].changed /\ Called(q, "delete")
        /\ source # {}

\* The invocations that were taken up for a tag, and the first of them.
OnTag(t) == {p \in Inv : inv[p].pc # "idle" /\ inv[p].clan_tag = t}
First(S) == CHOOSE p \in S : \A q \in S : p <= q

\* The events on the bus that carry the identifier of the tag's clan.
EventsOf(t) == SelectSeq(messages, LAMBDA m : m[2] = ExpectedBytes(t))
LastEventIsAdd(t) ==
    /\ EventsOf(t) # <<>>
    /\ EventsOf(t)[Len(EventsOf(t))][1] = "clans.add"

\* The invocations for the tag ran one after the other, none of their calls
\* failed, all have ended, and the store held no record of the tag when the
\* first of them arrived.
SequentialRunOn(t) ==
    /\ OnTag(t) # {}
    /\ \A p \in OnTag(t) : Ended(p) /\ NoFailure(p)
    /\ \A p, q \in OnTag(t) : p < q => p \in inv[q].prior
    /\ ~inv[First(OnTag(t))].held

\* C19: for a tag of the source that the store lacked at first, after each
\* invocation of a sequence of non-overlapping Adds and Removes without
\* failures the store holds the record if and only if an event was published
\* for its identifier and the last such event is clans.add.
C19_StoreAgreesWithLastEvent ==
    \A t \in Tags :
        InSource(t) /\ SequentialRunOn(t) => (InStore(t) <=> LastEventIsAdd(t))

\* C19 witness: an Add and then a Remove of a tag ran one after the other;
\* the store lacks the record and the events are clans.add, clans.delete.
C19_Witness ==
    \E t \in Tags :
        /\ InSource(t) /\ SequentialRunOn(t)
        /\ Cardinality(OnTag(t)) = 2
        /\ ~InStore(t)
        /\ EventsOf(t) = <<AddEvent(t), DeleteEvent(t)>>

\* p and q overlapped: the later of the two arrived before the earlier ended.
Overlapping(p, q) ==
    /\ p # q
    /\ inv[p].pc # "idle" /\ inv[q].pc # "idle"
    /\ p < q => p \notin inv[q].prior
    /\ q < p => q \notin inv[p].prior

\* C20: for a tag of the source that the store lacked at first, once an Add
\* and a Remove for the tag that overlapped and did not fail have both ended,
\* the store holds the record if and only if the last event published for
\* its identifier is clans.add.
C20_EventOrderAgreesWithStore ==
    \A p, q \in Inv :
        ( /\ Overlapping(p, q)
          /\ IsAdd(p) /\ IsRemove(q) /\ inv[p].clan_tag = inv[q].clan_tag
          /\ OnTag(inv[p].clan_tag) = {p, q}
          /\ InSource(inv[p].clan_tag)
          /\ ~inv[First({p, q})].held
          /\ Ended(p) /\ Ended(q) /\ NoFailure(p) /\ NoFailure(q) )
        => (InStore(inv[p].clan_tag) <=> LastEventIsAdd(inv[p].clan_tag))

====
